---------------------------- MODULE Spec2Model ----------------------------
(***************************************************************************)
(* State-machine model of the uber-eats-tracker scraper                    *)
(* (apps/scraper/src/index.ts and apps/scraper/src/parser.ts).             *)
(*                                                                         *)
(* One behaviour is one invocation of run(): acquire the browser session,  *)
(* navigate, wait for the orders table, expand it, extract the rows, post  *)
(* them to the storage API, release the session.  The browser page and the *)
(* storage API are the environment: what they answer is chosen             *)
(* nondeterministically at each await.                                     *)
(*                                                                         *)
(* Text is modelled as a sequence of one-character strings, a price as an  *)
(* integer number of hundredths.                                           *)
(***************************************************************************)
EXTENDS Integers, Sequences, FiniteSets, TLC

VARIABLES
    cdpUrl,             \* TRUE iff process.env.CDP_URL is set (attach mode)
    debugScraper,       \* const debugScraper: DEBUG_SCRAPER is not '0'
    pc,                 \* position of run() in its sequence of awaits
    sessionLaunched,    \* launchPersistentContext() has resolved in this run
    shouldCloseContext, \* the flag createContextAndPage() returns
    closeCalls,         \* number of browserContext.close() calls made
    previousCount,      \* expandOrdersTable: let previousCount
    stablePasses,       \* expandOrdersTable: let stablePasses
    iteration,          \* expandOrdersTable: the for-loop variable
    nextCount,          \* expandOrdersTable: const nextCount of the last poll
    polls,              \* history: row-count polls made inside the loop
    lastGrowth,         \* history: number of the last poll that read more rows (0: none)
    largestCount,       \* history: the largest row count expandOrdersTable has read
    exitReason,         \* history: how the expansion loop ended
    settleDone,         \* history: the 10 s settle delay has completed
    table,              \* the rows extractOrdersFromTable() read
    orders,             \* const orders in run()
    requests,           \* bodies POSTed to /orders/bulk, in order
    response,           \* the response fetch resolved with
    imported,           \* what 'Import completed:' printed, <<>> if nothing
    error,              \* the error run() rejected with
    exitCode,           \* process.exitCode (0 while unset)
    trace,              \* history: phases started, in order
    call,               \* a call of a parser.ts / extraction function: name and argument
    ret,                \* what that call returned, <<>> while it has not
    store,              \* the rows of the orders table of the database, by id
    apiCall,            \* the last POST /orders/bulk handled: body and answer
    apiFirst,           \* history: the request handled before it, when its body was the same
    inFlight,           \* the POST /orders/bulk requests being handled at the same time
    connection          \* the transaction state of the one database connection (dbPromise)

vars == <<cdpUrl, debugScraper, pc, sessionLaunched, shouldCloseContext, closeCalls,
          previousCount, stablePasses, iteration, nextCount, polls,
          lastGrowth, largestCount, exitReason, settleDone, table, orders,
          requests, response, imported, error, exitCode, trace,
          call, ret, store, apiCall, apiFirst, inFlight, connection>>

\* the scraper's run
runVars == <<cdpUrl, debugScraper, pc, sessionLaunched, shouldCloseContext, closeCalls,
             previousCount, stablePasses, iteration, nextCount, polls,
             lastGrowth, largestCount, exitReason, settleDone, table, orders,
             requests, response, imported, error, exitCode, trace>>

\* a function called on its own
textVars == <<call, ret>>

\* the storage API
apiVars == <<store, apiCall, apiFirst, inFlight, connection>>

expandVars == <<previousCount, stablePasses, iteration, nextCount, polls,
                lastGrowth, largestCount>>

sessionVars == <<sessionLaunched, shouldCloseContext, closeCalls>>

ingestVars == <<requests, response, imported>>

-----------------------------------------------------------------------------
(* Bounds of the model *)

\* the first row count read is in 0..MaxInitialRows
MaxInitialRows == 1

\* a poll reads a row count at most MaxStep away from previousCount
MaxStep == 1

\* the table read by extraction has at most MaxTableRows rows
MaxTableRows == 2

(* Program constants *)

\* index.ts:108  iteration <= 240
MaxIterations == 240

\* index.ts:122  stablePasses >= 3
StableThreshold == 3

\* index.ts:140  cellCount < 5
MinCells == 5


-----------------------------------------------------------------------------
(* Text helpers (parser.ts) *)

\* JavaScript's \s, represented by the space and the tab
IsSpace(c) == c \in {" ", "\t"}

\* JavaScript's \d
IsDigit(c) == c \in {"0", "1", "2", "3", "4", "5", "6", "7", "8", "9"}

DigitValue(c) ==
    CASE c = "0" -> 0 [] c = "1" -> 1 [] c = "2" -> 2 [] c = "3" -> 3
      [] c = "4" -> 4 [] c = "5" -> 5 [] c = "6" -> 6 [] c = "7" -> 7
      [] c = "8" -> 8 [] c = "9" -> 9

DigitChar(d) == <<"0", "1", "2", "3", "4", "5", "6", "7", "8", "9">>[d + 1]

\* value.replace(/\s+/g, ' '): every maximal whitespace run becomes one space
RECURSIVE CollapseWhitespace(_)
CollapseWhitespace(s) ==
    IF s = <<>> THEN <<>>
    ELSE IF IsSpace(Head(s))
         THEN IF Len(s) > 1 /\ IsSpace(s[2])
              THEN CollapseWhitespace(Tail(s))
              ELSE <<" ">> \o CollapseWhitespace(Tail(s))
         ELSE <<Head(s)>> \o CollapseWhitespace(Tail(s))

RECURSIVE TrimStart(_)
TrimStart(s) ==
    IF s # <<>> /\ IsSpace(Head(s)) THEN TrimStart(Tail(s)) ELSE s

RECURSIVE TrimEnd(_)
TrimEnd(s) ==
    IF s # <<>> /\ IsSpace(s[Len(s)])
    THEN TrimEnd(SubSeq(s, 1, Len(s) - 1))
    ELSE s

\* String.prototype.trim
Trim(s) == TrimEnd(TrimStart(s))

\* faulty variant: whitespace runs collapsed, ends not trimmed
normalizeTextNoTrim(value) == CollapseWhitespace(value)

normalizeText(value) == Trim(CollapseWhitespace(value))

\* first index >= i of s that holds no whitespace (Len(s) + 1 if none)
RECURSIVE SkipSpaces(_, _)
SkipSpaces(s, i) ==
    IF i <= Len(s) /\ IsSpace(s[i]) THEN SkipSpaces(s, i + 1) ELSE i

\* first index >= i of s that holds neither a digit nor a comma: [\d,]+ is greedy
RECURSIVE SkipAmountChars(_, _)
SkipAmountChars(s, i) ==
    IF i <= Len(s) /\ (IsDigit(s[i]) \/ s[i] = ",")
    THEN SkipAmountChars(s, i + 1)
    ELSE i

\* end (exclusive) of the optional group (?:\.\d{1,2})? tried at index k
FractionEnd(s, k) ==
    IF k + 1 <= Len(s) /\ s[k] = "." /\ IsDigit(s[k + 1])
    THEN IF k + 2 <= Len(s) /\ IsDigit(s[k + 2]) THEN k + 3 ELSE k + 2
    ELSE k

\* match[1] of pricePattern anchored at index i of s, <<>> when it does not
\* match there (a match's group is never empty)
PriceGroupAt(s, i) ==
    IF s[i] # "$" THEN <<>>
    ELSE LET j == SkipSpaces(s, i + 1)
             k == SkipAmountChars(s, j)
         IN  IF k = j THEN <<>> ELSE SubSeq(s, j, FractionEnd(s, k) - 1)

\* fullText.match(pricePattern)[1]: the leftmost match, <<>> for no match
RECURSIVE PriceGroupFrom(_, _)
PriceGroupFrom(s, i) ==
    IF i > Len(s) THEN <<>>
    ELSE IF PriceGroupAt(s, i) # <<>> THEN PriceGroupAt(s, i)
         ELSE PriceGroupFrom(s, i + 1)

pricePattern(fullText) == PriceGroupFrom(fullText, 1)

\* match[1].replace(/,/g, '')
RECURSIVE StripCommas(_)
StripCommas(s) ==
    IF s = <<>> THEN <<>>
    ELSE IF Head(s) = "," THEN StripCommas(Tail(s))
         ELSE <<Head(s)>> \o StripCommas(Tail(s))

RECURSIVE DigitsValue(_)
DigitsValue(s) ==
    IF s = <<>> THEN 0
    ELSE 10 * DigitsValue(SubSeq(s, 1, Len(s) - 1)) + DigitValue(s[Len(s)])

\* index of the first "." of s, Len(s) + 1 if none
RECURSIVE DotIndex(_, _)
DotIndex(s, i) ==
    IF i > Len(s) \/ s[i] = "." THEN i ELSE DotIndex(s, i + 1)

\* the value Number() gives for a text it cannot read
NaN == -2

\* what parsePriceFromText returns for no price
Null == -1

\* Number(text), in hundredths, for a text of digits with at most two decimals;
\* Number('') is 0
NumberOf(text) ==
    LET d == DotIndex(text, 1)
        whole == SubSeq(text, 1, d - 1)
        frac == SubSeq(text, d + 1, Len(text))
        digitsOnly(t) == \A i \in 1..Len(t) : IsDigit(t[i])
    IN  IF ~digitsOnly(whole) \/ ~digitsOnly(frac) \/ Len(frac) > 2
           \/ (Len(text) > 0 /\ Len(whole) + Len(frac) = 0)
        THEN NaN
        ELSE 100 * DigitsValue(whole)
             + (IF Len(frac) = 1 THEN 10 * DigitsValue(frac) ELSE DigitsValue(frac))

parsePriceFromText(fullText) ==
    LET match == pricePattern(fullText)
    IN  IF match = <<>> THEN Null
        ELSE LET totalPrice == NumberOf(StripCommas(match))
             IN  IF totalPrice = NaN THEN Null ELSE totalPrice

\* decimal digits of a natural number
RECURSIVE NatText(_)
NatText(n) ==
    IF n < 10 THEN <<DigitChar(n)>>
    ELSE NatText(n \div 10) \o <<DigitChar(n % 10)>>

\* `${totalPrice}`: the shortest decimal text of an amount given in hundredths
NumberText(h) ==
    LET whole == NatText(h \div 100)
        frac == h % 100
    IN  IF frac = 0 THEN whole
        ELSE IF frac % 10 = 0 THEN whole \o <<".", DigitChar(frac \div 10)>>
             ELSE whole \o <<".", DigitChar(frac \div 10), DigitChar(frac % 10)>>

\* faulty variant: the signature joins timestamp, name and price
buildScrapedOrderTimestampFirst(input) ==
    [restaurantName |-> input.restaurantName,
     totalPrice |-> input.totalPrice,
     orderedAtText |-> input.orderedAtText,
     sourceSignature |-> input.orderedAtText \o <<"_", "_">>
                           \o input.restaurantName \o <<"_", "_">>
                           \o NumberText(input.totalPrice)]

buildScrapedOrder(input) ==
    [restaurantName |-> input.restaurantName,
     totalPrice |-> input.totalPrice,
     orderedAtText |-> input.orderedAtText,
     sourceSignature |-> input.restaurantName \o <<"_", "_">>
                           \o input.orderedAtText \o <<"_", "_">>
                           \o NumberText(input.totalPrice)]

-----------------------------------------------------------------------------
(* Row extraction (index.ts, extractOrdersFromTable) *)

\* A table row as the page presents it: the number of td cells, the
\* textContent of cells 0, 1 and 4, whether cell 1 holds a 'span > span'
\* element, and the textContent of the first one.  Without such an element
\* the locator's textContent() rejects once its wait times out.
Row(cellCount, cell0, hasSpan, spanText, cell1, cell4) ==
    [cellCount |-> cellCount, cell0 |-> cell0, hasSpan |-> hasSpan,
     spanText |-> spanText, cell1 |-> cell1, cell4 |-> cell4]

\* the rows a table of the model is made of
SampleRows ==
    { Row(5, <<"t", "1">>, TRUE, <<"A">>, <<"A">>,
          <<"$", "2", "4", ".", "9", "9">>),
      Row(6, <<" ", "t", "\t", " ", "2", " ">>, TRUE, <<>>, <<" ", "B", " ">>,
          <<"C", "A", "$", " ", "1", ",", "2", "3", "4", ".", "5">>),
      Row(3, <<"t", "1">>, TRUE, <<"A">>, <<"A">>, <<>>),
      Row(5, <<" ">>, TRUE, <<"A">>, <<"A">>, <<"$", "1">>),
      Row(5, <<"t", "1">>, TRUE, <<" ">>, <<" ", "\t">>, <<"$", "1">>),
      Row(5, <<"t", "1">>, TRUE, <<"A">>, <<"A">>, <<"f", "r", "e", "e">>),
      Row(5, <<"t", "1">>, TRUE, <<"A">>, <<"A">>, <<"$", ",">>),
      Row(5, <<"t", "1">>, FALSE, <<>>, <<"A">>, <<"$", "1">>) }

RECURSIVE SeqsUpTo(_, _)
SeqsUpTo(S, n) ==
    IF n = 0 THEN {<<>>}
    ELSE LET shorter == SeqsUpTo(S, n - 1)
         IN  shorter \cup {Append(t, x) : t \in shorter, x \in S}

\* the tables extraction may find on the page
Tables == SeqsUpTo(SampleRows, MaxTableRows)

\* lines 146-148: normalizeText(span) || normalizeText(cell 1)
RestaurantNameOf(row) ==
    IF normalizeText(row.spanText) # <<>>
    THEN normalizeText(row.spanText)
    ELSE normalizeText(row.cell1)

\* a row whose reads reject: the awaited textContent() of a missing span
RowThrows(row) == row.cellCount >= MinCells /\ ~row.hasSpan

\* lines 140-168 for one row: the orders it pushes (none or one)
RowOrders(row) ==
    IF row.cellCount < MinCells THEN <<>>
    ELSE LET orderedAtText == normalizeText(row.cell0)
             restaurantName == RestaurantNameOf(row)
             rawPriceText == normalizeText(row.cell4)
             totalPrice == parsePriceFromText(rawPriceText)
         IN  IF orderedAtText = <<>> \/ restaurantName = <<>> \/ totalPrice = Null
             THEN <<>>
             ELSE <<buildScrapedOrder([restaurantName |-> restaurantName,
                                       totalPrice |-> totalPrice,
                                       orderedAtText |-> orderedAtText])>>

\* faulty variant: the loop ends at the first row that pushes no order
RECURSIVE ExtractFromUntilRejected(_, _)
ExtractFromUntilRejected(rows, index) ==
    IF index > Len(rows) \/ RowOrders(rows[index]) = <<>> THEN <<>>
    ELSE RowOrders(rows[index]) \o ExtractFromUntilRejected(rows, index + 1)

\* the for loop of extractOrdersFromTable over rows index..rowCount
RECURSIVE ExtractFrom(_, _)
ExtractFrom(rows, index) ==
    IF index > Len(rows) THEN <<>>
    ELSE RowOrders(rows[index]) \o ExtractFrom(rows, index + 1)

\* extractOrdersFromTable rejects instead of returning
ExtractThrows(rows) == \E i \in 1..Len(rows) : RowThrows(rows[i])

extractOrdersFromTable(rows) == ExtractFrom(rows, 1)

-----------------------------------------------------------------------------
(* The run (index.ts, run and the functions it awaits) *)

NoError == [kind |-> "none", status |-> 0, body |-> ""]

\* fetch has not resolved
NoResponse == [status |-> 0, body |-> ""]

\* an Error thrown by the browser layer or by fetch
Failure(kind) == [kind |-> kind, status |-> 0, body |-> ""]

\* line 60: new Error(`API request failed (${response.status}): ${body}`)
ApiError(status, body) == [kind |-> "api", status |-> status, body |-> body]

\* response statuses and bodies the storage API may answer with
Statuses == {200, 201, 299, 300, 400, 500}

CountsBody == "{\"inserted\":1,\"skipped\":0}"

Bodies == {CountsBody, "Bad Request"}

\* response.json() resolves
IsJson(body) == body = CountsBody

\* faulty variant: every status below 400 counts as success
ResponseOkBelow400(status) == status >= 200 /\ status < 400

\* Response.ok as line 58 reads it: a status in the range 200-299
ResponseOk(status) == status >= 200 /\ status <= 299

\* faulty variant: the attached session is marked as owned
AttachShouldCloseAlways == TRUE

\* shouldCloseContext as createContextAndPage returns it (lines 80 and 95)
AttachShouldClose == FALSE

LaunchShouldClose == TRUE

\* faulty variant: the cap is off by one
LoopContinuesOneMore(it) == it <= MaxIterations + 1

\* line 108: the for loop's condition
LoopContinues(it) == it <= MaxIterations

\* faulty variant: an unchanged count is taken for growth
GrewOrSame(next, previous) == next >= previous

\* line 115: the poll shows growth
Grew(next, previous) == next > previous

\* faulty variant: one stable pass too many is required
StableReachedLate(passes) == passes > StableThreshold

\* line 122: enough consecutive stable passes
StableReached(passes) == passes >= StableThreshold

\* faulty variant: the empty result is posted too
NothingToPostNever(found) == FALSE

\* line 45: nothing to post
NothingToPost(found) == Len(found) = 0

\* the row counts a poll may read
ObservableCounts(previous) ==
    {n \in (previous - MaxStep)..(previous + MaxStep) : n >= 0}

InTrace(phase) == \E i \in DOMAIN trace : trace[i] = phase

\* no function has been called on its own
NoCall == [fn |-> "none", arg |-> <<>>]

\* no request has reached the storage API
\* req.body without an orders array
NoBody == [isArray |-> FALSE, orders |-> <<>>]

\* no counts were answered
NoCounts == [inserted |-> 0 - 1, skipped |-> 0 - 1]

\* no request has been handled
NoApiCall ==
    [made |-> FALSE, body |-> NoBody, before |-> <<>>, answered |-> FALSE,
     status |-> 0, result |-> NoCounts, thrown |-> "none"]

\* the scraper's variables before run() starts (at = "acquire") or with no
\* run at all (at = "off")
RunStart(cdp, at) ==
    /\ cdpUrl = cdp
    /\ pc = at
    /\ sessionLaunched = FALSE
    /\ shouldCloseContext = FALSE
    /\ closeCalls = 0
    /\ previousCount = 0
    /\ stablePasses = 0
    /\ iteration = 0
    /\ nextCount = 0
    /\ polls = 0
    /\ lastGrowth = 0
    /\ largestCount = 0
    /\ exitReason = "none"
    /\ settleDone = FALSE
    /\ table = <<>>
    /\ orders = <<>>
    /\ requests = <<>>
    /\ response = NoResponse
    /\ imported = <<>>
    /\ error = NoError
    /\ exitCode = 0
    /\ trace = <<>>

\* the storage API before its first request, the database empty
\* no transaction is open on the connection; savepoint holds the rows of the
\* table at BEGIN while one is
NoTransaction == [inTransaction |-> FALSE, savepoint |-> <<>>]

ApiStart ==
    /\ store = <<>>
    /\ apiCall = NoApiCall
    /\ apiFirst = NoApiCall
    /\ inFlight = <<>>
    /\ connection = NoTransaction

Init ==
    /\ \E cdp \in BOOLEAN : RunStart(cdp, "acquire")
    /\ debugScraper \in BOOLEAN
    /\ call = NoCall
    /\ ret = <<>>
    /\ ApiStart

\* an awaited call inside run()'s try block rejects: control goes to finally
Throw(kind) ==
    /\ error' = Failure(kind)
    /\ pc' = "finally"

\* lines 73-82: attach to the browser behind CDP_URL.  connectOverCDP, and
\* newContext / newPage when the browser has no context / page, may reject;
\* the call is made before run()'s try block.
AttachOverCDP ==
    /\ pc = "acquire"
    /\ cdpUrl
    /\ trace' = Append(trace, "acquire")
    /\ \E connectOk, contextOk, pageOk \in BOOLEAN :
         IF connectOk /\ contextOk /\ pageOk
         THEN /\ shouldCloseContext' = AttachShouldClose
              /\ pc' = "navigate"
              /\ UNCHANGED error
         ELSE /\ error' = Failure("acquire")
              /\ pc' = "catch"
              /\ UNCHANGED shouldCloseContext
    /\ UNCHANGED <<textVars, apiVars>>
    /\ UNCHANGED <<cdpUrl, debugScraper, sessionLaunched, closeCalls, expandVars, exitReason,
                   settleDone, table, orders, ingestVars, exitCode>>

\* lines 84-96: launch the persistent context, then take its first page or
\* open one.  Either await may reject; the call is made before run()'s try.
LaunchPersistentContext ==
    /\ pc = "acquire"
    /\ ~cdpUrl
    /\ trace' = Append(trace, "acquire")
    /\ \E launchOk, pageOk \in BOOLEAN :
         /\ sessionLaunched' = launchOk
         /\ IF launchOk /\ pageOk
            THEN /\ shouldCloseContext' = LaunchShouldClose
                 /\ pc' = "navigate"
                 /\ UNCHANGED error
            ELSE /\ error' = Failure("acquire")
                 /\ pc' = "catch"
                 /\ UNCHANGED shouldCloseContext
    /\ UNCHANGED <<textVars, apiVars>>
    /\ UNCHANGED <<cdpUrl, debugScraper, closeCalls, expandVars, exitReason, settleDone,
                   table, orders, ingestVars, exitCode>>

\* faulty variant: a failed navigation is tried again
GotoWithRetry ==
    /\ pc = "navigate"
    /\ trace' = Append(trace, "navigate")
    /\ \/ pc' = "wait"
       \/ pc' = "navigate"
    /\ UNCHANGED <<textVars, apiVars>>
    /\ UNCHANGED <<cdpUrl, debugScraper, sessionVars, expandVars, exitReason, settleDone,
                   table, orders, ingestVars, error, exitCode>>

\* line 39: page.goto
Goto ==
    /\ pc = "navigate"
    /\ trace' = Append(trace, "navigate")
    /\ \/ pc' = "wait" /\ UNCHANGED error
       \/ Throw("navigate")
    /\ UNCHANGED <<textVars, apiVars>>
    /\ UNCHANGED <<cdpUrl, debugScraper, sessionVars, expandVars, exitReason, settleDone,
                   table, orders, ingestVars, exitCode>>

\* faulty variant: the timeout is recorded and the run goes on
waitForOrdersTableReadySwallowed ==
    /\ pc = "wait"
    /\ trace' = Append(trace, "wait")
    /\ \E tableFound, rowFound \in BOOLEAN :
         /\ pc' = "expand"
         /\ error' = IF tableFound /\ rowFound THEN error ELSE Failure("timeout")
    /\ UNCHANGED <<textVars, apiVars>>
    /\ UNCHANGED <<cdpUrl, debugScraper, sessionVars, expandVars, exitReason, settleDone,
                   table, orders, ingestVars, exitCode>>

\* lines 99-102: two waitForSelector calls of 90 s each, either may time out
waitForOrdersTableReady ==
    /\ pc = "wait"
    /\ trace' = Append(trace, "wait")
    /\ \E tableFound, rowFound \in BOOLEAN :
         IF tableFound /\ rowFound
         THEN pc' = "expand" /\ UNCHANGED error
         ELSE Throw("timeout")
    /\ UNCHANGED <<textVars, apiVars>>
    /\ UNCHANGED <<cdpUrl, debugScraper, sessionVars, expandVars, exitReason, settleDone,
                   table, orders, ingestVars, exitCode>>

\* expandOrdersTable returns or rejects: its locals are gone
LeaveExpand ==
    /\ previousCount' = 0
    /\ stablePasses' = 0
    /\ iteration' = 0
    /\ nextCount' = 0
    /\ polls' = 0
    /\ lastGrowth' = 0
    /\ largestCount' = 0

\* lines 105-108: the first row count, the counters, the loop entry
ExpandStart ==
    /\ pc = "expand"
    /\ trace' = Append(trace, "expand")
    /\ \/ /\ \E count \in 0..MaxInitialRows :
                 previousCount' = count /\ largestCount' = count
          /\ stablePasses' = 0
          /\ iteration' = 1
          /\ pc' = "expand_loop"
          /\ UNCHANGED error
       \/ /\ Throw("expand")
          /\ UNCHANGED <<previousCount, stablePasses, iteration, largestCount>>
    /\ UNCHANGED <<textVars, apiVars>>
    /\ UNCHANGED <<cdpUrl, debugScraper, sessionVars, nextCount, polls, lastGrowth,
                   exitReason, settleDone, table, orders, ingestVars, exitCode>>

\* faulty variant: the rejection of a nudge is thrown again
CatchRethrows(rejects) == rejects

\* promise.catch(() => {}): whether the promise it gives rejects
Catch(rejects) == FALSE

\* lines 175-183, given whether keyboard.press and mouse.wheel reject: the
\* calls made and whether nudgeToBottom rejects.  The wheel is used once the
\* awaited key press has not thrown.
nudgeToBottom(keyRejects, wheelRejects) ==
    LET keyThrows == Catch(keyRejects)
        wheelTried == ~keyThrows
    IN  [keyTried |-> TRUE,
         wheelTried |-> wheelTried,
         rejects |-> keyThrows \/ (wheelTried /\ Catch(wheelRejects))]

\* lines 17-28: the lines debugLog prints
debugLog(enabled, message) == IF ~enabled THEN <<>> ELSE <<message>>

\* faulty variant: previousCount follows every count read
PassCountersFollowCount(previous, passes, it, count) ==
    IF Grew(count, previous)
    THEN [previousCount |-> count, stablePasses |-> 0, iteration |-> it + 1,
          control |-> IF LoopContinues(it + 1) THEN "loop" ELSE "cap"]
    ELSE IF StableReached(passes + 1)
         THEN [previousCount |-> count, stablePasses |-> passes + 1,
               iteration |-> it, control |-> "stable"]
         ELSE [previousCount |-> count, stablePasses |-> passes + 1,
               iteration |-> it + 1,
               control |-> IF LoopContinues(it + 1) THEN "loop" ELSE "cap"]

\* lines 115-125 and the loop's next test: the counters after a poll that
\* read count, and whether the loop goes on ("loop"), is left by the break
\* ("stable") or by its cap ("cap")
PassCounters(previous, passes, it, count) ==
    IF Grew(count, previous)
    THEN [previousCount |-> count, stablePasses |-> 0, iteration |-> it + 1,
          control |-> IF LoopContinues(it + 1) THEN "loop" ELSE "cap"]
    ELSE IF StableReached(passes + 1)
         THEN [previousCount |-> previous, stablePasses |-> passes + 1,
               iteration |-> it, control |-> "stable"]
         ELSE [previousCount |-> previous, stablePasses |-> passes + 1,
               iteration |-> it + 1,
               control |-> IF LoopContinues(it + 1) THEN "loop" ELSE "cap"]

\* a pass of the loop that ran to its end
PassDone(nudge, counters, lines) ==
    [nudge |-> nudge, paused |-> TRUE, polled |-> TRUE, logged |-> lines,
     previousCount |-> counters.previousCount,
     stablePasses |-> counters.stablePasses,
     iteration |-> counters.iteration,
     control |-> counters.control]

\* a pass of the loop that nudgeToBottom's rejection ended
PassThrown(nudge, previous, passes, it) ==
    [nudge |-> nudge, paused |-> FALSE, polled |-> FALSE, logged |-> <<>>,
     previousCount |-> previous, stablePasses |-> passes, iteration |-> it,
     control |-> "throw"]

\* faulty variant: the count read is used only when it is logged
ExpandPassCountForLog(previous, passes, it, keyRejects, wheelRejects, count, debug) ==
    LET nudge == nudgeToBottom(keyRejects, wheelRejects)
        used == IF debug THEN count ELSE previous
    IN  IF nudge.rejects THEN PassThrown(nudge, previous, passes, it)
        ELSE PassDone(nudge, PassCounters(previous, passes, it, used),
                      debugLog(debug, [iteration |-> it, before |-> previous,
                                       after |-> used]))

\* lines 109-125: one pass of the loop body whose pause and poll resolve,
\* the poll reading count
ExpandPass(previous, passes, it, keyRejects, wheelRejects, count, debug) ==
    LET nudge == nudgeToBottom(keyRejects, wheelRejects)
    IN  IF nudge.rejects THEN PassThrown(nudge, previous, passes, it)
        ELSE PassDone(nudge, PassCounters(previous, passes, it, count),
                      debugLog(debug, [iteration |-> it, before |-> previous,
                                       after |-> count]))

\* lines 108-125: one pass of the loop body and the loop's next test, for
\* every outcome of the two nudges; the pause or the poll may reject.
ExpandIteration ==
    /\ pc = "expand_loop"
    /\ \/ \E count \in ObservableCounts(previousCount) :
          \E pass \in {ExpandPass(previousCount, stablePasses, iteration,
                                  keyRejects, wheelRejects, count, debugScraper) :
                           keyRejects \in BOOLEAN, wheelRejects \in BOOLEAN} :
             IF pass.control = "throw"
             THEN /\ Throw("nudge")
                  /\ LeaveExpand
                  /\ UNCHANGED exitReason
             ELSE /\ nextCount' = count
                  /\ polls' = polls + 1
                  /\ lastGrowth' = IF count > previousCount
                                   THEN polls + 1
                                   ELSE lastGrowth
                  /\ largestCount' = IF count > largestCount
                                     THEN count
                                     ELSE largestCount
                  /\ previousCount' = pass.previousCount
                  /\ stablePasses' = pass.stablePasses
                  /\ iteration' = pass.iteration
                  /\ pc' = IF pass.control = "loop"
                           THEN "expand_loop"
                           ELSE "expand_settle"
                  /\ exitReason' = IF pass.control = "loop"
                                   THEN exitReason
                                   ELSE pass.control
                  /\ UNCHANGED error
       \/ /\ \E keyRejects, wheelRejects \in BOOLEAN :
                 ~nudgeToBottom(keyRejects, wheelRejects).rejects
          /\ Throw("expand")
          /\ LeaveExpand
          /\ UNCHANGED exitReason
    /\ UNCHANGED <<textVars, apiVars>>
    /\ UNCHANGED <<cdpUrl, debugScraper, sessionVars, settleDone, table, orders,
                   ingestVars, exitCode, trace>>

\* faulty variant: expandOrdersTable returns without the settle delay
SettleSkipped ==
    /\ pc = "expand_settle"
    /\ pc' = "extract"
    /\ LeaveExpand
    /\ UNCHANGED <<textVars, apiVars>>
    /\ UNCHANGED <<cdpUrl, debugScraper, sessionVars, exitReason, settleDone, table, orders,
                   ingestVars, error, exitCode, trace>>

\* lines 127-129: the 10 s settle delay, then expandOrdersTable returns
Settle ==
    /\ pc = "expand_settle"
    /\ \/ /\ settleDone' = TRUE
          /\ pc' = "extract"
          /\ UNCHANGED error
       \/ /\ Throw("expand")
          /\ UNCHANGED settleDone
    /\ LeaveExpand
    /\ UNCHANGED <<textVars, apiVars>>
    /\ UNCHANGED <<cdpUrl, debugScraper, sessionVars, exitReason, table, orders, ingestVars,
                   exitCode, trace>>

\* lines 43-48: extractOrdersFromTable, then the empty-result return
Extract ==
    /\ pc = "extract"
    /\ trace' = Append(trace, "extract")
    /\ \/ \E rows \in Tables :
            /\ table' = rows
            /\ IF ExtractThrows(rows)
               THEN Throw("extract") /\ UNCHANGED orders
               ELSE /\ orders' = extractOrdersFromTable(rows)
                    /\ pc' = IF NothingToPost(extractOrdersFromTable(rows))
                             THEN "finally"
                             ELSE "ingest"
                    /\ UNCHANGED error
       \/ /\ Throw("extract")
          /\ UNCHANGED <<table, orders>>
    /\ UNCHANGED <<textVars, apiVars>>
    /\ UNCHANGED <<cdpUrl, debugScraper, sessionVars, expandVars, exitReason, settleDone,
                   ingestVars, exitCode>>

\* lines 52-64: the POST to /orders/bulk and the reading of its response
Post ==
    /\ pc = "ingest"
    /\ trace' = Append(trace, "ingest")
    /\ requests' = Append(requests, orders)
    /\ pc' = "finally"
    /\ \/ /\ error' = Failure("network")
          /\ UNCHANGED <<response, imported>>
       \/ \E status \in Statuses, body \in Bodies :
            /\ response' = [status |-> status, body |-> body]
            /\ IF ~ResponseOk(status)
               THEN /\ error' = ApiError(status, body)
                    /\ UNCHANGED imported
               ELSE IF IsJson(body)
                    THEN /\ imported' = <<body>>
                         /\ UNCHANGED error
                    ELSE /\ error' = Failure("json")
                         /\ UNCHANGED imported
    /\ UNCHANGED <<textVars, apiVars>>
    /\ UNCHANGED <<cdpUrl, debugScraper, sessionVars, expandVars, exitReason, settleDone,
                   table, orders, exitCode>>

\* lines 65-69: the finally block; then run() resolves or rejects.
\* browserContext.close() is taken to resolve: Playwright's close() resolves
\* also for a context that is already closed.
Finally ==
    /\ pc = "finally"
    /\ IF shouldCloseContext
       THEN /\ closeCalls' = closeCalls + 1
            /\ trace' = Append(trace, "release")
       ELSE UNCHANGED <<closeCalls, trace>>
    /\ pc' = IF error = NoError THEN "done" ELSE "catch"
    /\ UNCHANGED <<textVars, apiVars>>
    /\ UNCHANGED <<cdpUrl, debugScraper, sessionLaunched, shouldCloseContext, expandVars,
                   exitReason, settleDone, table, orders, ingestVars, error,
                   exitCode>>

\* lines 185-188: run().catch
TopLevelCatch ==
    /\ pc = "catch"
    /\ exitCode' = 1
    /\ pc' = "done"
    /\ UNCHANGED <<textVars, apiVars>>
    /\ UNCHANGED <<cdpUrl, debugScraper, sessionVars, expandVars, exitReason, settleDone,
                   table, orders, ingestVars, error, trace>>

Next ==
    \/ AttachOverCDP
    \/ LaunchPersistentContext
    \/ Goto
    \/ waitForOrdersTableReady
    \/ ExpandStart
    \/ ExpandIteration
    \/ Settle
    \/ Extract
    \/ Post
    \/ Finally
    \/ TopLevelCatch

Spec == Init /\ [][Next]_vars

-----------------------------------------------------------------------------
(* Properties of the expansion loop *)

\* C1: when the expansion loop has ended and the last poll that read more
\* rows was poll K (0 if none did) with K + 3 <= 240, exactly K + 3 polls were
\* made; and while the loop is still running, fewer than K + 3 polls have been
\* made since that last growth, so it neither stops sooner nor runs longer.
C1_ExitsAfterKPlus3 ==
    /\ (pc = "expand_settle" /\ lastGrowth + 3 <= 240) => polls = lastGrowth + 3
    /\ pc = "expand_loop" => polls < lastGrowth + 3

C1_Witness ==
    pc = "expand_settle" /\ lastGrowth = 2 /\ polls = 5 /\ exitReason = "stable"

\* C2: the loop never makes more than 240 polls, it is left once the 240th
\* is made, and every step taken inside the loop makes one more poll or
\* leaves the loop, so the loop ends within 240 passes whatever the counts.
C2_AtMost240Polls ==
    /\ [](polls <= 240 /\ (pc = "expand_loop" => polls < 240))
    /\ [][pc = "expand_loop" => (polls' = polls + 1 \/ pc' # "expand_loop")]_vars

C2_Witness ==
    /\ pc = "expand_settle"
    /\ exitReason = "cap"
    /\ polls = 240
    /\ lastGrowth = 240
    /\ previousCount >= 240

\* C3: inside the loop stablePasses is the number of polls made since the
\* last poll that read more rows than previousCount; a poll that reads more
\* sets stablePasses to 0 and previousCount to the count read, any other poll
\* adds 1 and keeps previousCount; the loop is left by stability only with
\* stablePasses = 3.
C3_StablePassesCountNoGrowth ==
    /\ []((pc \in {"expand_loop", "expand_settle"})
            => stablePasses = polls - lastGrowth)
    /\ []((pc = "expand_settle" /\ exitReason = "stable") => stablePasses = 3)
    /\ [][polls' = polls + 1 =>
            /\ nextCount' > previousCount =>
                 (stablePasses' = 0 /\ previousCount' = nextCount')
            /\ nextCount' <= previousCount =>
                 (stablePasses' = stablePasses + 1
                    /\ previousCount' = previousCount)]_vars

C3_Witness ==
    /\ pc = "expand_settle"
    /\ exitReason = "stable"
    /\ stablePasses = 3
    /\ lastGrowth = 4
    /\ nextCount < previousCount

\* C4: once extraction has started reading the table, the settle delay has
\* completed, whichever way the loop ended.
C4_SettleBeforeExtraction ==
    InTrace("extract") => (settleDone /\ exitReason \in {"stable", "cap"})

C4_Witness ==
    InTrace("extract") /\ Len(table) > 0 /\ exitReason = "cap"

-----------------------------------------------------------------------------
(* Properties of the run *)

\* the phases of one run, in the order run() performs them
Phases ==
    <<"acquire", "navigate", "wait", "expand", "extract", "ingest", "release">>

\* C5: the phases started so far are an initial part of acquire, navigate,
\* wait, expand, extract, ingest, each once and in that order, optionally
\* ended by release; at most one POST is issued and its body is the finished
\* extraction of the table; after a failure only the release and the
\* top-level handler run.
C5_PhasesInOrderOnce ==
    /\ Len(trace) <= Len(Phases)
    /\ \A i \in DOMAIN trace :
         \/ trace[i] = Phases[i] /\ trace[i] # "release"
         \/ trace[i] = "release" /\ i = Len(trace)
    /\ Len(requests) <= 1
    /\ requests # <<>> =>
         /\ InTrace("extract")
         /\ ~ExtractThrows(table)
         /\ requests[1] = extractOrdersFromTable(table)
    /\ error # NoError => pc \in {"finally", "catch", "done"}

C5_Witness ==
    pc = "done" /\ trace = Phases /\ Len(requests) = 1

\* C6: in launch mode, a run that launched the persistent session has closed
\* it exactly once when it ends.
C6_LaunchedSessionClosedOnce ==
    (pc = "done" /\ ~cdpUrl /\ sessionLaunched) => closeCalls = 1

\* C7: in attach mode the browser context is never closed.
C7_AttachNeverCloses ==
    cdpUrl => (closeCalls = 0 /\ ~InTrace("release"))

C7_Witness ==
    cdpUrl /\ pc = "done" /\ error.kind = "api" /\ exitCode = 1

\* C8: when extraction has returned no order, no request is sent to the
\* storage API, the run does not fail and the exit status stays unset.
C8_EmptyExtractionNoPost ==
    (InTrace("extract") /\ error.kind # "extract" /\ orders = <<>>)
        => (requests = <<>> /\ error = NoError /\ exitCode = 0
              /\ pc \in {"finally", "done"})

C8_Witness ==
    /\ pc = "done"
    /\ InTrace("extract")
    /\ Len(table) = 2
    /\ orders = <<>>
    /\ error = NoError

\* C9: when the response's status is outside 200-299, the run fails with
\* the error that carries that status and body, prints no import result, and
\* ends with exit status 1.
C9_NonOkResponseIsFatal ==
    (response # NoResponse /\ (response.status < 200 \/ response.status > 299))
        => /\ error = ApiError(response.status, response.body)
           /\ imported = <<>>
           /\ pc \in {"finally", "catch", "done"}
           /\ pc = "done" => exitCode = 1

C9_Witness ==
    pc = "done" /\ response.status = 300 /\ exitCode = 1

\* C10: when the wait for the table times out, the run fails with exit
\* status 1 and starts neither expansion nor extraction nor the POST.
C10_TimeoutAbortsRun ==
    error.kind = "timeout"
        => /\ ~InTrace("expand")
           /\ ~InTrace("extract")
           /\ ~InTrace("ingest")
           /\ requests = <<>>
           /\ pc \in {"finally", "catch", "done"}
           /\ pc = "done" => exitCode = 1

C10_Witness ==
    pc = "done" /\ error.kind = "timeout" /\ exitCode = 1

-----------------------------------------------------------------------------
(* The functions of parser.ts and extractOrdersFromTable, called on their   *)
(* own: the initial state holds the call, the action returns its result.    *)

\* texts have at most MaxTextLen characters
MaxTextLen == 6

\* the fields given to buildScrapedOrder have at most MaxFieldLen characters
MaxFieldLen == 2

\* characters of the texts given to normalizeText
SpaceChars == {" ", "\t", "a"}

\* characters of the texts given to parsePriceFromText
PriceChars == {"$", "1", ",", ".", " "}

\* characters of the names and timestamps given to buildScrapedOrder
FieldChars == {"a", "_"}

\* the price texts of section 8 of the specification
PriceExamples ==
    { <<"$", "2", "4", ".", "9", "9">>,
      <<"$", "1", ",", "2", "3", "4", ".", "5">>,
      <<"$", "0">>,
      <<"n", "o", " ", "p", "r", "i", "c", "e", " ", "h", "e", "r", "e">> }

PriceTexts == SeqsUpTo(PriceChars, MaxTextLen) \cup PriceExamples

\* amounts in hundredths
Amounts == {0, 2499, 2599}

BuildInputs ==
    [restaurantName : SeqsUpTo(FieldChars, MaxFieldLen),
     totalPrice : Amounts,
     orderedAtText : SeqsUpTo(FieldChars, MaxFieldLen)]

\* a one-row table whose price cell holds the given text
PriceRowTable(text) ==
    <<Row(5, <<"t", "1">>, TRUE, <<"A">>, <<"A">>, text)>>

\* the locals a pass of the expansion loop can start with: the passes
\* counted never exceed the polls made, and previousCount has grown by at
\* most MaxStep in each of the other polls
PassLocals ==
    {loc \in [previous : 0..(MaxInitialRows + 2 * MaxStep),
              passes : 0..(StableThreshold - 1),
              it : {1, 2, 3, MaxIterations}] :
        /\ loc.passes < loc.it
        /\ loc.previous <= MaxInitialRows + (loc.it - 1 - loc.passes) * MaxStep}

\* the locals, the outcomes of the two nudges, the count the poll reads and
\* the debug toggle of one pass
PassInputs ==
    {[loc |-> loc, keyRejects |-> k, wheelRejects |-> w, count |-> n,
      debug |-> d] :
        loc \in PassLocals, k \in BOOLEAN, w \in BOOLEAN,
        n \in 0..(MaxInitialRows + 3 * MaxStep), d \in BOOLEAN}

\* the pass of the loop on an input, with the debug toggle given
PassOn(in, debug) ==
    ExpandPass(in.loc.previous, in.loc.passes, in.loc.it,
               in.keyRejects, in.wheelRejects, in.count, debug)

TextInit ==
    /\ RunStart(FALSE, "off")
    /\ debugScraper = TRUE
    /\ ApiStart
    /\ ret = <<>>
    /\ \/ \E x \in SeqsUpTo(SpaceChars, MaxTextLen) :
            call = [fn |-> "normalizeText", arg |-> x]
       \/ \E x \in PriceTexts :
            call = [fn |-> "parsePriceFromText", arg |-> x]
       \/ \E x, y \in BuildInputs :
            call = [fn |-> "buildScrapedOrder", arg |-> <<x, y>>]
       \/ \E rows \in Tables :
            call = [fn |-> "extractOrdersFromTable", arg |-> rows]
       \/ \E x \in PriceTexts :
            call = [fn |-> "extractOrdersFromTable", arg |-> PriceRowTable(x)]
       \/ \E x \in {in \in PassInputs :
                        in.count \in ObservableCounts(in.loc.previous)} :
            call = [fn |-> "expandPass", arg |-> x]

CallNormalizeText ==
    /\ call.fn = "normalizeText"
    /\ ret = <<>>
    /\ ret' = <<normalizeText(call.arg)>>
    /\ UNCHANGED <<call, runVars, apiVars>>

CallParsePriceFromText ==
    /\ call.fn = "parsePriceFromText"
    /\ ret = <<>>
    /\ ret' = <<parsePriceFromText(call.arg)>>
    /\ UNCHANGED <<call, runVars, apiVars>>

\* two calls, one for each of the two inputs
CallBuildScrapedOrder ==
    /\ call.fn = "buildScrapedOrder"
    /\ ret = <<>>
    /\ ret' = <<buildScrapedOrder(call.arg[1]), buildScrapedOrder(call.arg[2])>>
    /\ UNCHANGED <<call, runVars, apiVars>>

\* the call returns its orders, or rejects when a row's read rejects
CallExtractOrdersFromTable ==
    /\ call.fn = "extractOrdersFromTable"
    /\ ret = <<>>
    /\ ret' = IF ExtractThrows(call.arg)
              THEN <<[threw |-> TRUE, orders |-> <<>>]>>
              ELSE <<[threw |-> FALSE,
                      orders |-> extractOrdersFromTable(call.arg)]>>
    /\ UNCHANGED <<call, runVars, apiVars>>

\* one pass of the loop of expandOrdersTable, made with the debug toggle as
\* given and made again with the toggle reversed
CallExpandPass ==
    /\ call.fn = "expandPass"
    /\ ret = <<>>
    /\ ret' = <<PassOn(call.arg, call.arg.debug), PassOn(call.arg, ~call.arg.debug)>>
    /\ UNCHANGED <<call, runVars, apiVars>>

TextNext ==
    \/ CallNormalizeText
    \/ CallParsePriceFromText
    \/ CallBuildScrapedOrder
    \/ CallExtractOrdersFromTable
    \/ CallExpandPass

SpecText == TextInit /\ [][TextNext]_vars

Returned(fn) == call.fn = fn /\ ret # <<>>

-----------------------------------------------------------------------------
(* Row extraction: C11, C12, C13 *)

\* the table a call of extractOrdersFromTable was given, and its outcome
ExtractedRows == call.arg

Extraction == ret[1]

\* the name of a row as the specification resolves it: the nested span's
\* normalized text when there is one and it is not empty, else cell 1's
ResolvedName(row) ==
    IF row.hasSpan /\ normalizeText(row.spanText) # <<>>
    THEN normalizeText(row.spanText)
    ELSE normalizeText(row.cell1)

\* the four conditions under which a row is to give an order
RowAccepted(row) ==
    /\ row.cellCount >= 5
    /\ normalizeText(row.cell0) # <<>>
    /\ ResolvedName(row) # <<>>
    /\ parsePriceFromText(normalizeText(row.cell4)) # Null

\* the rows of a table that meet the four conditions, in table order
AcceptedRows(rows) == SelectSeq(rows, RowAccepted)

\* the values an order of an accepted row is to carry
ValuesOf(row) ==
    [orderedAtText |-> normalizeText(row.cell0),
     restaurantName |-> ResolvedName(row),
     totalPrice |-> parsePriceFromText(normalizeText(row.cell4))]

\* C11: every row of the table gives one order if it has at least 5 cells,
\* a non-empty normalized timestamp, a non-empty resolved name and a price
\* text that parses, and gives no order otherwise: the call returns, with as
\* many orders as rows meeting the four conditions.
C11_OrderIffRowAccepted ==
    Returned("extractOrdersFromTable") =>
        /\ ~Extraction.threw
        /\ Len(Extraction.orders) = Len(AcceptedRows(ExtractedRows))

NonNumericPrice(row) == \A i \in 1..Len(row.cell4) : ~IsDigit(row.cell4[i])

\* C13: a row of 5 cells whose price text holds no digit gives no order:
\* a table made of such rows only extracts to the empty sequence.
C13_NonNumericPriceSkipped ==
    ( /\ Returned("extractOrdersFromTable")
      /\ ~Extraction.threw
      /\ \A i \in 1..Len(ExtractedRows) :
             ExtractedRows[i].cellCount = 5 /\ NonNumericPrice(ExtractedRows[i]) )
    => Extraction.orders = <<>>

\* C22: for every row the restaurant name used is the normalized text of
\* the nested span of cell 1 when that text is not empty and the normalized
\* text of cell 1 otherwise, a row being rejected for its name only when both
\* are empty: the call returns, and the orders it returns are those of the
\* rows accepted with that name, each carrying it.
C22_NameFromSpanElseCell ==
    Returned("extractOrdersFromTable") =>
        LET accepted == AcceptedRows(ExtractedRows)
        IN  /\ ~Extraction.threw
            /\ Len(Extraction.orders) = Len(accepted)
            /\ \A i \in 1..Len(accepted) :
                   Extraction.orders[i].restaurantName = ResolvedName(accepted[i])

-----------------------------------------------------------------------------
(* parser.ts: C14, C15, C16, C17 *)

HasDigit(s) == \E i \in 1..Len(s) : IsDigit(s[i])

\* a currency symbol directly followed by digits, with at most one "." and
\* at most two digits after it
IsPlainAmount(s) ==
    /\ Len(s) >= 2
    /\ s[1] = "$"
    /\ IsDigit(s[2])
    /\ \A i \in 2..Len(s) : IsDigit(s[i]) \/ s[i] = "."
    /\ Cardinality({i \in 2..Len(s) : s[i] = "."}) <= 1
    /\ \A i \in 2..Len(s) : s[i] = "." => Len(s) - i <= 2

\* the amount, in hundredths, a plain amount text stands for
PlainAmountValue(s) ==
    LET d == CHOOSE i \in 2..(Len(s) + 1) :
                 /\ i = Len(s) + 1 \/ s[i] = "."
                 /\ \A j \in 2..(i - 1) : s[j] # "."
        frac == SubSeq(s, d + 1, Len(s))
    IN  100 * DigitsValue(SubSeq(s, 2, d - 1))
        + (IF Len(frac) = 1 THEN 10 * DigitsValue(frac) ELSE DigitsValue(frac))

\* C14: parsePriceFromText returns the non-negative amount of the first
\* currency-prefixed numeric pattern of its text ("$24.99" gives 24.99,
\* "$1,234.5" gives 1234.5, "$0" gives 0), and null for a text without such a
\* pattern, as is every text without a digit.
C14_PriceOrNull ==
    Returned("parsePriceFromText") =>
        LET s == call.arg
            price == ret[1]
        IN  /\ price = Null \/ price >= 0
            /\ IsPlainAmount(s) => price = PlainAmountValue(s)
            /\ s = <<"$", "2", "4", ".", "9", "9">> => price = 2499
            /\ s = <<"$", "1", ",", "2", "3", "4", ".", "5">> => price = 123450
            /\ s = <<"$", "0">> => price = 0
            /\ ~HasDigit(s) => price = Null

\* the text of an amount given in hundredths, digit by digit
AmountText(h) ==
    CASE h = 0 -> <<"0">>
      [] h = 2499 -> <<"2", "4", ".", "9", "9">>
      [] h = 2599 -> <<"2", "5", ".", "9", "9">>

\* C15: the sourceSignature buildScrapedOrder returns is restaurantName,
\* "__", orderedAtText, "__", totalPrice joined in that order, the three other
\* fields are returned unchanged, and two calls with identical inputs return
\* identical signatures.
C15_SignatureIsJoin ==
    Returned("buildScrapedOrder") =>
        /\ \A k \in 1..2 :
               /\ ret[k].sourceSignature =
                      call.arg[k].restaurantName \o <<"_", "_">>
                      \o call.arg[k].orderedAtText \o <<"_", "_">>
                      \o AmountText(call.arg[k].totalPrice)
               /\ ret[k].restaurantName = call.arg[k].restaurantName
               /\ ret[k].orderedAtText = call.arg[k].orderedAtText
               /\ ret[k].totalPrice = call.arg[k].totalPrice
        /\ call.arg[1] = call.arg[2] =>
               ret[1].sourceSignature = ret[2].sourceSignature

\* two calls with the same input, its name and timestamp different texts
C15_Witness ==
    /\ Returned("buildScrapedOrder")
    /\ call.arg[1] = call.arg[2]
    /\ call.arg[1].restaurantName = <<"a">>
    /\ call.arg[1].orderedAtText = <<"_", "a">>
    /\ call.arg[1].totalPrice = 2499
    /\ ret[1].sourceSignature = <<"a", "_", "_", "_", "a", "_", "_",
                                  "2", "4", ".", "9", "9">>

\* C16: two inputs of buildScrapedOrder that differ in a field give
\* different signatures.
C16_SignatureInjective ==
    (Returned("buildScrapedOrder") /\ call.arg[1] # call.arg[2]) =>
        ret[1].sourceSignature # ret[2].sourceSignature

IsNormalized(s) ==
    /\ s # <<>> => ~IsSpace(s[1]) /\ ~IsSpace(s[Len(s)])
    /\ \A i \in 1..(Len(s) - 1) : ~(IsSpace(s[i]) /\ IsSpace(s[i + 1]))

\* C17: normalizeText is idempotent, and its result has no leading or
\* trailing whitespace and no two whitespace characters in a row.
C17_NormalizeIdempotent ==
    Returned("normalizeText") =>
        /\ normalizeText(ret[1]) = ret[1]
        /\ IsNormalized(ret[1])

\* a text with whitespace at both ends and a run of whitespace inside
C17_Witness ==
    /\ Returned("normalizeText")
    /\ call.arg = <<" ", "a", "\t", " ", "a", " ">>
    /\ ret[1] = <<"a", " ", "a">>

-----------------------------------------------------------------------------
(* The storage API: POST /orders/bulk (index.ts of the API) and insertOrders *)
(* (db.ts), one request handled at a time.                                  *)

\* index of the first "," of s from i on, Len(s) + 1 if none
RECURSIVE CommaIndex(_, _)
CommaIndex(s, i) ==
    IF i > Len(s) \/ s[i] = "," THEN i ELSE CommaIndex(s, i + 1)

\* orderedAtText.split(',')
RECURSIVE SplitOnComma(_)
SplitOnComma(s) ==
    LET c == CommaIndex(s, 1)
    IN  IF c > Len(s) THEN <<s>>
        ELSE <<SubSeq(s, 1, c - 1)>> \o SplitOnComma(SubSeq(s, c + 1, Len(s)))

\* .map((segment) => segment.trim()).filter((segment) => segment.length > 0)
RECURSIVE TrimmedSegments(_)
TrimmedSegments(parts) ==
    IF parts = <<>> THEN <<>>
    ELSE IF Trim(Head(parts)) = <<>> THEN TrimmedSegments(Tail(parts))
         ELSE <<Trim(Head(parts))>> \o TrimmedSegments(Tail(parts))

\* segments.join(', ')
RECURSIVE JoinSegments(_)
JoinSegments(segments) ==
    IF segments = <<>> THEN <<>>
    ELSE IF Len(segments) = 1 THEN Head(segments)
         ELSE Head(segments) \o <<",", " ">> \o JoinSegments(Tail(segments))

splitOrderedAtText(orderedAtText) ==
    LET segments == TrimmedSegments(SplitOnComma(orderedAtText))
    IN  IF Len(segments) >= 3
        THEN [orderedDate |-> JoinSegments(SubSeq(segments, 1, 2)),
              orderedTime |-> JoinSegments(SubSeq(segments, 3, Len(segments)))]
        ELSE [orderedDate |-> orderedAtText, orderedTime |-> <<>>]

\* the row stmt.run inserts for an order (id and created_at left out)
StoredRow(order) ==
    [restaurantName |-> order.restaurantName,
     itemCount |-> 1,
     totalPrice |-> order.totalPrice,
     orderedDate |-> splitOrderedAtText(order.orderedAtText).orderedDate,
     orderedTime |-> splitOrderedAtText(order.orderedAtText).orderedTime,
     orderedAtText |-> order.orderedAtText,
     sourceSignature |-> order.sourceSignature]

\* faulty variant: the table has no UNIQUE constraint
UniqueConstraintOff(signature, rows) == FALSE

\* source_signature TEXT NOT NULL UNIQUE: the insert of a row with this
\* signature fails with 'UNIQUE constraint failed'
UniqueConstraintFailed(signature, rows) ==
    \E i \in 1..Len(rows) : rows[i].sourceSignature = signature

\* faulty variant: a row that fails the constraint is not counted
InsertOneSkipUncounted(acc, order) ==
    IF UniqueConstraintFailed(order.sourceSignature, acc.rows)
    THEN acc
    ELSE [acc EXCEPT !.rows = Append(@, StoredRow(order)),
                     !.inserted = @ + 1]

\* faulty variant: INSERT OR REPLACE, a row of the same signature is replaced
InsertOneReplacing(acc, order) ==
    [acc EXCEPT !.rows = Append(SelectSeq(@, LAMBDA row :
                                    row.sourceSignature # order.sourceSignature),
                                StoredRow(order)),
                !.inserted = @ + 1]

\* the body of the loop of insertOrders for one order whose insert does
\* not fail for another reason than the constraint
InsertOne(acc, order) ==
    IF UniqueConstraintFailed(order.sourceSignature, acc.rows)
    THEN [acc EXCEPT !.skipped = @ + 1]
    ELSE [acc EXCEPT !.rows = Append(@, StoredRow(order)),
                     !.inserted = @ + 1]

\* the loop of insertOrders from order index on; the insert of order failAt
\* (0: none) fails with an error that is not a constraint violation, which
\* the loop throws again
RECURSIVE InsertFrom(_, _, _, _)
InsertFrom(acc, batch, index, failAt) ==
    IF index > Len(batch) THEN acc
    ELSE IF index = failAt THEN [acc EXCEPT !.threw = TRUE]
         ELSE InsertFrom(InsertOne(acc, batch[index]), batch, index + 1, failAt)

\* faulty variant: the error is thrown again without ROLLBACK
insertOrdersNoRollback(batch, rows, failAt) ==
    IF Len(batch) = 0
    THEN [threw |-> FALSE, rows |-> rows, inserted |-> 0, skipped |-> 0]
    ELSE LET done == InsertFrom([threw |-> FALSE, rows |-> rows,
                                 inserted |-> 0, skipped |-> 0],
                                batch, 1, failAt)
         IN  IF done.threw
             THEN [threw |-> TRUE, rows |-> done.rows,
                   inserted |-> NoCounts.inserted, skipped |-> NoCounts.skipped]
             ELSE done

\* insertOrders on a table holding rows: the rows afterwards and the counts
\* returned, or threw after ROLLBACK
insertOrders(batch, rows, failAt) ==
    IF Len(batch) = 0
    THEN [threw |-> FALSE, rows |-> rows, inserted |-> 0, skipped |-> 0]
    ELSE LET done == InsertFrom([threw |-> FALSE, rows |-> rows,
                                 inserted |-> 0, skipped |-> 0],
                                batch, 1, failAt)
         IN  IF done.threw
             THEN [threw |-> TRUE, rows |-> rows,
                   inserted |-> NoCounts.inserted, skipped |-> NoCounts.skipped]
             ELSE done

\* An element of the orders array of a request body.  shape tells what the
\* JSON value is: a well-formed order ("valid"), null, a value that is no
\* object, or an object with one field missing or of another type; order
\* holds the fields a well-formed order carries.
Element(shape, order) == [shape |-> shape, order |-> order]

InvalidShapes ==
    {"null", "nonObject", "nameNotString", "priceNotNumber",
     "textNotString", "signatureNotString"}

\* order.<field> can be read: reading a property of null throws a TypeError
ReadThrows(element) == element.shape = "null"

\* the four typeof tests of the handler on an element that can be read
ShapeCheckFails(element) ==
    \/ element.shape \in {"nonObject", "nameNotString"}
    \/ element.shape \in {"nonObject", "priceNotNumber"}
    \/ element.shape \in {"nonObject", "textNotString"}
    \/ element.shape \in {"nonObject", "signatureNotString"}

\* the tables whose extraction is sent to the API: their rows hold the
\* nested span and a price cell with a digit
ApiTables ==
    SeqsUpTo({row \in SampleRows :
                  row.hasSpan /\ \E i \in 1..Len(row.cell4) : IsDigit(row.cell4[i])},
             MaxTableRows)

\* the batches one extraction run can produce
ExtractedBatches == {extractOrdersFromTable(rows) : rows \in ApiTables}

ValidBody(batch) ==
    [isArray |-> TRUE,
     orders |-> [i \in 1..Len(batch) |-> Element("valid", batch[i])]]

\* the body of a batch with element i replaced by a value of another shape
InvalidBody(batch, i, shape) ==
    [isArray |-> TRUE,
     orders |-> [j \in 1..Len(batch) |->
                    Element(IF j = i THEN shape ELSE "valid", batch[j])]]

\* the request bodies the API is sent
ApiBodies ==
    {NoBody}
    \cup {ValidBody(batch) : batch \in ExtractedBatches}
    \cup UNION {{InvalidBody(batch, i, shape) :
                     i \in 1..Len(batch), shape \in InvalidShapes} :
                batch \in ExtractedBatches}

\* payload.orders as insertOrders is given it
OrdersOf(body) == [i \in 1..Len(body.orders) |-> body.orders[i].order]

\* the for loop of the handler: "400" at the first element that fails the
\* tests, "throw" at the first element that cannot be read, else "pass"
RECURSIVE ShapeCheckFrom(_, _)
ShapeCheckFrom(elements, index) ==
    IF index > Len(elements) THEN "pass"
    ELSE IF ReadThrows(elements[index]) THEN "throw"
         ELSE IF ShapeCheckFails(elements[index]) THEN "400"
              ELSE ShapeCheckFrom(elements, index + 1)

\* res.status(201).json(result)
Answer201(body, before, counts) ==
    [made |-> TRUE, body |-> body, before |-> before, answered |-> TRUE,
     status |-> 201,
     result |-> [inserted |-> counts.inserted, skipped |-> counts.skipped],
     thrown |-> "none"]

\* res.status(400).json({ error: ... })
Answer400(body, before) ==
    [made |-> TRUE, body |-> body, before |-> before, answered |-> TRUE,
     status |-> 400, result |-> NoCounts, thrown |-> "none"]

\* The async handler rejected with the error thrown.  The framework answers
\* 500 when it handles the rejected promise, and sends no answer when it
\* does not.
HandlerRejected(body, before, answered, thrown) ==
    [made |-> TRUE, body |-> body, before |-> before, answered |-> answered,
     status |-> IF answered THEN 500 ELSE 0, result |-> NoCounts,
     thrown |-> thrown]

ApiInit ==
    /\ RunStart(FALSE, "off")
    /\ debugScraper = TRUE
    /\ call = NoCall
    /\ ret = <<>>
    /\ ApiStart

\* app.post('/orders/bulk', ...), from the request to its answer
PostOrdersBulk ==
    \E body \in ApiBodies, failAt \in 0..MaxTableRows, answered \in BOOLEAN :
        LET check == IF body.isArray THEN ShapeCheckFrom(body.orders, 1)
                     ELSE "400"
            done == insertOrders(OrdersOf(body), store, failAt)
        IN  /\ failAt <= Len(body.orders)
            /\ check # "pass" => failAt = 0
            /\ (check = "throw" \/ (check = "pass" /\ done.threw)) \/ answered
            /\ apiFirst' = IF apiCall.made /\ apiCall.body = body
                           THEN apiCall ELSE NoApiCall
            /\ \/ /\ check = "400"
                  /\ apiCall' = Answer400(body, store)
                  /\ store' = store
               \/ /\ check = "throw"
                  /\ apiCall' = HandlerRejected(body, store, answered, "TypeError")
                  /\ store' = store
               \/ /\ check = "pass"
                  /\ done.threw
                  /\ apiCall' = HandlerRejected(body, store, answered, "database")
                  /\ store' = done.rows
               \/ /\ check = "pass"
                  /\ ~done.threw
                  /\ apiCall' = Answer201(body, store, done)
                  /\ store' = done.rows
            /\ UNCHANGED <<inFlight, connection, runVars, textVars>>

ApiNext == PostOrdersBulk

SpecApi == ApiInit /\ [][ApiNext]_vars

-----------------------------------------------------------------------------
(* The storage API: C18, C19, C20 *)

SignaturesOf(rows) == {rows[i].sourceSignature : i \in 1..Len(rows)}

\* every element of the body is a well-formed order
WellFormed(body) ==
    body.isArray /\ \A i \in 1..Len(body.orders) : body.orders[i].shape = "valid"

\* the last two requests carried the same extracted batch, both were
\* answered 201, and no order of the batch was stored before the first
SubmittedTwice ==
    /\ apiFirst.made
    /\ apiCall.made
    /\ WellFormed(apiCall.body)
    /\ apiFirst.status = 201
    /\ apiCall.status = 201
    /\ SignaturesOf(OrdersOf(apiCall.body)) \cap SignaturesOf(apiFirst.before) = {}

BatchSize == Len(apiCall.body.orders)

\* C18 as stated: a batch of N extracted orders submitted twice in succession
\* gives inserted N, skipped 0 the first time and inserted 0, skipped N the
\* second time.
C18_TwiceGivesNThenZero ==
    SubmittedTwice =>
        /\ apiFirst.result = [inserted |-> BatchSize, skipped |-> 0]
        /\ apiCall.result = [inserted |-> 0, skipped |-> BatchSize]

\* C18, amended: the second submission of a batch of N extracted orders gives
\* inserted 0, skipped N; the first gives inserted N, skipped 0 when the
\* signatures of the batch are pairwise different, and otherwise inserts one
\* order for each signature of the batch and skips the others.
C18_TwiceGivesDistinctThenZero ==
    SubmittedTwice =>
        LET distinct == Cardinality(SignaturesOf(OrdersOf(apiCall.body)))
        IN  /\ apiFirst.result = [inserted |-> distinct,
                                  skipped |-> BatchSize - distinct]
            /\ distinct = BatchSize =>
                   apiFirst.result = [inserted |-> BatchSize, skipped |-> 0]
            /\ apiCall.result = [inserted |-> 0, skipped |-> BatchSize]

\* a batch of two different orders submitted twice
C18_Witness ==
    /\ SubmittedTwice
    /\ BatchSize = 2
    /\ Cardinality(SignaturesOf(OrdersOf(apiCall.body))) = 2
    /\ apiFirst.result = [inserted |-> 2, skipped |-> 0]
    /\ apiCall.result = [inserted |-> 0, skipped |-> 2]

\* the positions of the batch whose signature was stored before the request
\* or stands at an earlier position of the batch
Duplicates(batch, before) ==
    {i \in 1..Len(batch) :
        \/ batch[i].sourceSignature \in SignaturesOf(before)
        \/ \E j \in 1..(i - 1) : batch[j].sourceSignature = batch[i].sourceSignature}

\* the request was answered 201 and held an order stored before and an order
\* repeated inside the batch
C19_Witness ==
    /\ apiCall.made
    /\ apiCall.status = 201
    /\ Len(apiCall.before) = 1
    /\ apiCall.result = [inserted |-> 0, skipped |-> 2]
    /\ Len(store) = 1

\* C19: no two stored rows share a sourceSignature; an order whose signature
\* is stored already or stands earlier in the batch is counted as skipped,
\* and such orders never make the call fail: a well-formed request is
\* answered 201 unless an insert failed for another reason.
C19_SignaturesUnique ==
    /\ \A i, j \in 1..Len(store) :
           store[i].sourceSignature = store[j].sourceSignature => i = j
    /\ (apiCall.made /\ apiCall.status = 201) =>
           /\ apiCall.result.skipped =
                  Cardinality(Duplicates(OrdersOf(apiCall.body), apiCall.before))
           /\ apiCall.result.inserted = Len(store) - Len(apiCall.before)
    /\ (apiCall.made /\ WellFormed(apiCall.body) /\ apiCall.thrown # "database") =>
           apiCall.status = 201

\* C20: a request whose orders is not an array, or holds an element that is
\* null, not an object or lacks a field of the right type, is answered 400
\* and leaves the stored rows unchanged.
C20_MalformedIs400 ==
    (apiCall.made /\ ~WellFormed(apiCall.body)) =>
        /\ apiCall.answered
        /\ apiCall.status = 400
        /\ store = apiCall.before

-----------------------------------------------------------------------------
(* The expansion loop: C21, C23, C27 *)

\* the pass with the call's input but both nudges resolving
PassWithNudgesDone ==
    ExpandPass(call.arg.loc.previous, call.arg.loc.passes, call.arg.loc.it,
               FALSE, FALSE, call.arg.count, call.arg.debug)

\* C21: whichever of the two nudges reject, the pass tries the key press
\* and the wheel, pauses, polls the row count, and ends with the counters
\* and the loop decision of the pass in which both nudges resolved;
\* nudgeToBottom never rejects, so the run is not aborted.
C21_NudgeFailuresSwallowed ==
    Returned("expandPass") =>
        /\ ret[1].nudge.keyTried
        /\ ret[1].nudge.wheelTried
        /\ ~ret[1].nudge.rejects
        /\ ret[1].paused
        /\ ret[1].polled
        /\ ret[1].control # "throw"
        /\ ret[1] = PassWithNudgesDone

\* both nudges rejected in a pass whose poll read more rows
C21_Witness ==
    /\ Returned("expandPass")
    /\ call.arg.keyRejects
    /\ call.arg.wheelRejects
    /\ call.arg.count > call.arg.loc.previous
    /\ ret[1].control = "loop"
    /\ ret[1].previousCount = call.arg.count
    /\ ret[1].stablePasses = 0

\* what a pass does apart from the debug lines it prints
PassEffect(pass) ==
    [nudge |-> pass.nudge, paused |-> pass.paused, polled |-> pass.polled,
     previousCount |-> pass.previousCount, stablePasses |-> pass.stablePasses,
     iteration |-> pass.iteration, control |-> pass.control]

C27_PreviousCountIsLargest ==
    /\ [](pc \in {"expand_loop", "expand_settle"} => previousCount = largestCount)
    /\ [][polls' = polls + 1 =>
            /\ previousCount' >= previousCount
            /\ nextCount' < previousCount =>
                 /\ previousCount' = previousCount
                 /\ stablePasses' = stablePasses + 1]_vars

\* the loop goes on after a poll that read fewer rows than previousCount
C27_Witness ==
    /\ pc = "expand_loop"
    /\ polls = 2
    /\ stablePasses = 1
    /\ nextCount < previousCount
    /\ previousCount = largestCount
    /\ largestCount = 2

-----------------------------------------------------------------------------
\* C28: an insertOrders call on a batch of N orders that returns counts has
\* inserted + skipped = N, inserted is the number of records the call added
\* to the store, the stored signatures afterwards are those stored before
\* united with the batch's, and every record stored before is unchanged
C28_CountsMatchStore ==
    (apiCall.made /\ apiCall.status = 201) =>
        LET batch == OrdersOf(apiCall.body)
            before == apiCall.before
        IN  /\ apiCall.result.inserted + apiCall.result.skipped = Len(batch)
            /\ apiCall.result.inserted = Len(store) - Len(before)
            /\ SignaturesOf(store) = SignaturesOf(before) \cup SignaturesOf(batch)
            /\ Len(store) >= Len(before)
            /\ SubSeq(store, 1, Len(before)) = before

\* a call on two orders, one stored before and one new
C28_Witness ==
    /\ apiCall.made
    /\ apiCall.status = 201
    /\ Len(apiCall.body.orders) = 2
    /\ apiCall.result = [inserted |-> 1, skipped |-> 1]
    /\ Len(apiCall.before) = 1
    /\ Len(store) = 2
    /\ SignaturesOf(apiCall.before) \subseteq SignaturesOf(OrdersOf(apiCall.body))

\* C29: when an insert of a batch fails with an error that is no uniqueness
\* violation, insertOrders rolls back and raises the error: the store is as
\* it was before the call, whatever was inserted before the failing insert,
\* and no counts are returned
C29_FailureRollsBack ==
    (apiCall.made /\ apiCall.thrown = "database") =>
        /\ store = apiCall.before
        /\ apiCall.result = NoCounts
        /\ apiCall.status # 201

\* a call on two different orders, neither stored before, that raised the
\* error of a failed insert
C29_Witness ==
    /\ apiCall.made
    /\ apiCall.thrown = "database"
    /\ Len(apiCall.body.orders) = 2
    /\ Cardinality(SignaturesOf(OrdersOf(apiCall.body))) = 2
    /\ SignaturesOf(OrdersOf(apiCall.body)) \cap SignaturesOf(apiCall.before) = {}
    /\ store = apiCall.before

(* Two POST /orders/bulk requests handled at the same time.  Both bodies    *)
(* passed the handler's checks; each request advances from one await of     *)
(* insertOrders to the next, and the statements of both run on the one      *)
(* connection that getDb() shares, which has one transaction state.         *)

\* a request whose handler is about to call insertOrders(payload.orders)
Received(batch) ==
    [pc |-> "begin", batch |-> batch, index |-> 1, inserted |-> 0, skipped |-> 0,
     failed |-> FALSE, status |-> 0]

OverlapInit ==
    /\ RunStart(FALSE, "off")
    /\ debugScraper = TRUE
    /\ call = NoCall
    /\ ret = <<>>
    /\ store = <<>>
    /\ apiCall = NoApiCall
    /\ apiFirst = NoApiCall
    /\ connection = NoTransaction
    /\ \E first, second \in ExtractedBatches :
          inFlight = <<Received(first), Received(second)>>

\* The handler rejected.  The framework answers 500 when it handles the
\* rejected promise, and sends no answer (status 0) when it does not.
Rejected(request, answered) ==
    [request EXCEPT !.pc = "done", !.status = IF answered THEN 500 ELSE 0]

\* insertOrders up to `await db.exec('BEGIN TRANSACTION')`, which is awaited
\* before the try block: an empty batch returns 0/0 and is answered 201;
\* BEGIN fails inside an open transaction ('cannot start a transaction within
\* a transaction') and the error leaves insertOrders without ROLLBACK
BeginTransaction(r) ==
    /\ inFlight[r].pc = "begin"
    /\ \E answered \in BOOLEAN :
          IF Len(inFlight[r].batch) = 0
          THEN /\ inFlight' = [inFlight EXCEPT ![r].pc = "done", ![r].status = 201]
               /\ UNCHANGED connection
          ELSE IF connection.inTransaction
          THEN /\ inFlight' = [inFlight EXCEPT ![r] = Rejected(@, answered)]
               /\ UNCHANGED connection
          ELSE /\ inFlight' = [inFlight EXCEPT ![r].pc = "insert"]
               /\ connection' = [inTransaction |-> TRUE, savepoint |-> store]
    /\ UNCHANGED <<store, apiCall, apiFirst, runVars, textVars>>

\* one pass of the for loop: `await stmt.run(...)` of the next order, counted
\* as inserted, or as skipped when the UNIQUE constraint fails, or failing with
\* another error that is thrown to the catch; after the last order the
\* function goes on to finalize and COMMIT
RunStatement(r) ==
    /\ inFlight[r].pc = "insert"
    /\ \E fails \in BOOLEAN :
          IF fails
          THEN /\ inFlight' = [inFlight EXCEPT ![r].pc = "rollback", ![r].failed = TRUE]
               /\ UNCHANGED store
          ELSE LET request == inFlight[r]
                   done == InsertOne([threw |-> FALSE, rows |-> store,
                                      inserted |-> request.inserted,
                                      skipped |-> request.skipped],
                                     request.batch[request.index])
               IN  /\ store' = done.rows
                   /\ inFlight' =
                          [inFlight EXCEPT ![r].inserted = done.inserted,
                                           ![r].skipped = done.skipped,
                                           ![r].index = @ + 1,
                                           ![r].pc = IF request.index = Len(request.batch)
                                                     THEN "commit" ELSE "insert"]
    /\ UNCHANGED <<connection, apiCall, apiFirst, runVars, textVars>>

\* `await db.exec('COMMIT')`, the return of the counts and the handler's
\* res.status(201).json(result); COMMIT fails when no transaction is open
Commit(r) ==
    /\ inFlight[r].pc = "commit"
    /\ IF connection.inTransaction
       THEN /\ connection' = NoTransaction
            /\ inFlight' = [inFlight EXCEPT ![r].pc = "done", ![r].status = 201]
       ELSE /\ inFlight' = [inFlight EXCEPT ![r].pc = "rollback", ![r].failed = TRUE]
            /\ UNCHANGED connection
    /\ UNCHANGED <<store, apiCall, apiFirst, runVars, textVars>>

\* the catch of insertOrders: `await db.exec('ROLLBACK')` undoes what the
\* connection's open transaction did, and the error is thrown again
Rollback(r) ==
    /\ inFlight[r].pc = "rollback"
    /\ \E answered \in BOOLEAN :
          inFlight' = [inFlight EXCEPT ![r] = Rejected(@, answered)]
    /\ store' = IF connection.inTransaction THEN connection.savepoint ELSE store
    /\ connection' = NoTransaction
    /\ UNCHANGED <<apiCall, apiFirst, runVars, textVars>>

OverlapNext ==
    \E r \in 1..2 :
        \/ BeginTransaction(r)
        \/ RunStatement(r)
        \/ Commit(r)
        \/ Rollback(r)

SpecOverlap == OverlapInit /\ [][OverlapNext]_vars

\* C30: when two requests with valid bodies overlap, interleaving at their
\* awaits on the shared connection, and no statement fails for a reason of
\* the storage, each is answered 201 with inserted + skipped equal to its
\* batch size, and the records finally stored are exactly those the two
\* answers count as inserted
C30_OverlappingBothAnswered201 ==
    (\A r \in 1..2 : inFlight[r].pc = "done" /\ ~inFlight[r].failed) =>
        /\ \A r \in 1..2 :
              /\ inFlight[r].status = 201
              /\ inFlight[r].inserted + inFlight[r].skipped = Len(inFlight[r].batch)
        /\ Len(store) = inFlight[1].inserted + inFlight[2].inserted
        /\ SignaturesOf(store) = SignaturesOf(inFlight[1].batch)
                                 \cup SignaturesOf(inFlight[2].batch)

(* The web page's metrics (App.vue): dates and period buckets.  A date is   *)
(* an instant of the local time zone: twice the number of days from         *)
(* 1970-01-01 to its day, plus one when it is past midnight.                *)

\* c is of the character class [A-Za-z], \s, \d or \w
InClass(class, c) ==
    LET letter ==
            c \in {"A", "B", "C", "D", "E", "F", "G", "H", "I", "J", "K", "L", "M",
                   "N", "O", "P", "Q", "R", "S", "T", "U", "V", "W", "X", "Y", "Z",
                   "a", "b", "c", "d", "e", "f", "g", "h", "i", "j", "k", "l", "m",
                   "n", "o", "p", "q", "r", "s", "t", "u", "v", "w", "x", "y", "z"}
    IN  CASE class = "letter" -> letter
          [] class = "space" -> IsSpace(c)
          [] class = "digit" -> IsDigit(c)
          [] class = "word" -> letter \/ IsDigit(c) \/ c = "_"

\* the index after the longest run of characters of a class from i on
RECURSIVE RunEnd(_, _, _)
RunEnd(s, i, class) ==
    IF i <= Len(s) /\ InClass(class, s[i]) THEN RunEnd(s, i + 1, class) ELSE i

\* ([A-Za-z]+)\s+(\d{1,2}),\s*(\d{4}) anchored at index i
DateCoreAt(s, i) ==
    LET Match(a, b, d, e) ==
            IF /\ a > i
               /\ b > a
               /\ d > b
               /\ d <= Len(s)
               /\ s[d] = ","
               /\ e + 3 <= Len(s)
               /\ \A k \in e..(e + 3) : IsDigit(s[k])
            THEN [found |-> TRUE, monthName |-> SubSeq(s, i, a - 1),
                  day |-> SubSeq(s, b, d - 1), year |-> SubSeq(s, e, e + 3)]
            ELSE [found |-> FALSE, monthName |-> <<>>, day |-> <<>>, year |-> <<>>]
        \* d: the end of \d{1,2}, at most two digits of the run that ends at c
        AfterDay(a, b, d) == Match(a, b, d, RunEnd(s, d + 1, "space"))
        AfterDigits(a, b, c) == AfterDay(a, b, IF c - b > 2 THEN b + 2 ELSE c)
        AfterSpaces(a, b) == AfterDigits(a, b, RunEnd(s, b, "digit"))
        AfterLetters(a) == AfterSpaces(a, RunEnd(s, a, "space"))
    IN  AfterLetters(RunEnd(s, i, "letter"))
RECURSIVE DatePatternFrom(_, _)
DatePatternFrom(s, i) ==
    LET WithPrefix(w) ==
            IF w > i /\ w <= Len(s) /\ s[w] = ","
            THEN DateCoreAt(s, RunEnd(s, w + 1, "space"))
            ELSE DateCoreAt(s, Len(s) + 1)
        First(withPrefix, without) ==
            IF withPrefix.found THEN withPrefix
            ELSE IF without.found THEN without
            ELSE DatePatternFrom(s, i + 1)
    IN  IF i > Len(s) THEN DateCoreAt(s, i)
        ELSE First(WithPrefix(RunEnd(s, i, "word")), DateCoreAt(s, i))
DaysFromCivil(year, month, day) ==
    LET Days(era, yoe, doy) ==
            era * 146097 + yoe * 365 + yoe \div 4 - yoe \div 100 + doy - 719468
        InEra(y, era) ==
            Days(era, y - era * 400, (153 * ((month + 9) % 12) + 2) \div 5 + day - 1)
        FromMarch(y) == InEra(y, y \div 400)
    IN  FromMarch(IF month <= 2 THEN year - 1 ELSE year)
CivilFromDays(z) ==
    LET Civil(y, doy, mp) ==
            [year |-> IF mp < 10 THEN y ELSE y + 1,
             month |-> IF mp < 10 THEN mp + 3 ELSE mp - 9,
             day |-> doy - (153 * mp + 2) \div 5 + 1]
        InYear(y, doy) == Civil(y, doy, (5 * doy + 2) \div 153)
        OfEra(era, doe, yoe) ==
            InYear(yoe + era * 400, doe - (365 * yoe + yoe \div 4 - yoe \div 100))
        InEra(era, doe) ==
            OfEra(era, doe,
                  (doe - doe \div 1460 + doe \div 36524 - doe \div 146096) \div 365)
        Shifted(days, era) == InEra(era, days - era * 146097)
    IN  Shifted(z + 719468, (z + 719468) \div 146097)
getFullYear(date) == CivilFromDays(date \div 2).year
\* 0 is January
getMonth(date) == CivilFromDays(date \div 2).month - 1

\* new Date(year, monthIndex, day): local midnight, a month index or a day
\* out of range carries over
NewDate(year, monthIndex, day) ==
    2 * (DaysFromCivil(year + monthIndex \div 12, (monthIndex % 12) + 1, 1) + day - 1)

\* the month index (0 is January) that the date parser gives a word: a month
\* is known by its first three letters in either case, Null for another word
MonthIndexOf(monthName) ==
    LET lower == <<"a", "b", "c", "d", "e", "f", "g", "h", "i", "j", "k", "l", "m",
                   "n", "o", "p", "q", "r", "s", "t", "u", "v", "w", "x", "y", "z">>
        upper == <<"A", "B", "C", "D", "E", "F", "G", "H", "I", "J", "K", "L", "M",
                   "N", "O", "P", "Q", "R", "S", "T", "U", "V", "W", "X", "Y", "Z">>
        LowerCase(c) == IF \E k \in 1..26 : upper[k] = c
                        THEN lower[CHOOSE k \in 1..26 : upper[k] = c]
                        ELSE c
        months == << <<"j", "a", "n">>, <<"f", "e", "b">>, <<"m", "a", "r">>,
                     <<"a", "p", "r">>, <<"m", "a", "y">>, <<"j", "u", "n">>,
                     <<"j", "u", "l">>, <<"a", "u", "g">>, <<"s", "e", "p">>,
                     <<"o", "c", "t">>, <<"n", "o", "v">>, <<"d", "e", "c">> >>
    IN  IF Len(monthName) < 3 THEN Null
        ELSE LET prefix == [k \in 1..3 |-> LowerCase(monthName[k])]
             IN  IF \E m \in 1..12 : months[m] = prefix
                 THEN (CHOOSE m \in 1..12 : months[m] = prefix) - 1
                 ELSE Null

\* new Date(`${monthName} ${day}, ${year}`) is the local midnight of that day,
\* a day up to 31 past the month's end carrying over into the next month, and
\* an invalid date for an unknown month or a day outside 1..31
parseOrderedDate(input) ==
    LET Dated(monthIndex, day, year) ==
            IF monthIndex = Null \/ day < 1 \/ day > 31 THEN Null
            ELSE NewDate(year, monthIndex, day)
        Parsed(match) ==
            IF ~match.found THEN Null
            ELSE Dated(MonthIndexOf(match.monthName), DigitsValue(match.day),
                       DigitsValue(match.year))
    IN  Parsed(DatePatternFrom(input, 1))
monthKey(date) ==
    LET Key(civil) ==
            NatText(civil.year) \o <<"-">>
            \o (IF civil.month < 10 THEN <<"0">> ELSE <<>>) \o NatText(civil.month)
    IN  Key([year |-> getFullYear(date), month |-> getMonth(date) + 1])
yearKey(date) == NatText(getFullYear(date))

\* the ISO week of the date's day: the week and the year of its Thursday
isoWeekInfo(date) ==
    LET Info(thursday, utcYear) ==
            [year |-> utcYear,
             \* Math.ceil(((thursday - yearStart) + 1) / 7)
             week |-> (thursday - DaysFromCivil(utcYear, 1, 1) + 1 + 6) \div 7]
        OfThursday(thursday) == Info(thursday, CivilFromDays(thursday).year)
        \* utcDate.getUTCDay() || 7; 1970-01-01 was a Thursday
        OfDay(utcDay, utcWeekDay) ==
            OfThursday(utcDay + 4 - (IF utcWeekDay = 0 THEN 7 ELSE utcWeekDay))
        OfUtc(utcDay) == OfDay(utcDay, (utcDay + 4) % 7)
        OfCivil(civil) == OfUtc(NewDate(civil.year, civil.month - 1, civil.day) \div 2)
    IN  OfCivil(CivilFromDays(date \div 2))
weekKeyCalendarYear(date) ==
    LET Key(info) ==
            NatText(getFullYear(date)) \o <<"-", "W">>
            \o (IF info.week < 10 THEN <<"0">> ELSE <<>>) \o NatText(info.week)
    IN  Key(isoWeekInfo(date))
weekKey(date) ==
    LET Key(info) ==
            NatText(info.year) \o <<"-", "W">>
            \o (IF info.week < 10 THEN <<"0">> ELSE <<>>) \o NatText(info.week)
    IN  Key(isoWeekInfo(date))
startOfIsoWeek(date) ==
    LET \* value.getDay() || 7
        Monday(civil, weekDay) ==
            NewDate(civil.year, civil.month - 1,
                    civil.day - (IF weekDay = 0 THEN 7 ELSE weekDay) + 1)
        OfValue(value) == Monday(CivilFromDays(value \div 2), ((value \div 2) + 4) % 7)
        OfCivil(civil) == OfValue(NewDate(civil.year, civil.month - 1, civil.day))
    IN  OfCivil(CivilFromDays(date \div 2))
RECURSIVE PeriodStartsFrom(_, _, _)
PeriodStartsFrom(cursor, end, step) ==
    LET Moved(civil) ==
            NewDate(civil.year + (IF step = "year" THEN 1 ELSE 0),
                    civil.month - 1 + (IF step = "month" THEN 1 ELSE 0),
                    civil.day + (IF step = "week" THEN 7 ELSE 0))
    IN  IF cursor <= end
        THEN <<cursor>> \o PeriodStartsFrom(Moved(CivilFromDays(cursor \div 2)), end, step)
        ELSE <<>>
listMonthStarts(startDate, endDate) ==
    LET FirstOfMonth(civil) == NewDate(civil.year, civil.month - 1, 1)
    IN  PeriodStartsFrom(FirstOfMonth(CivilFromDays(startDate \div 2)),
                         FirstOfMonth(CivilFromDays(endDate \div 2)), "month")
listWeekStarts(startDate, endDate) ==
    PeriodStartsFrom(startOfIsoWeek(startDate), startOfIsoWeek(endDate), "week")

listYearStarts(startDate, endDate) ==
    PeriodStartsFrom(NewDate(getFullYear(startDate), 0, 1),
                     NewDate(getFullYear(endDate), 0, 1), "year")

\* getKey(date), getKey being the name of one of the three key functions
ApplyKey(getKey, date) ==
    CASE getKey = "weekKey" -> weekKey(date)
      [] getKey = "monthKey" -> monthKey(date)
      [] getKey = "yearKey" -> yearKey(date)

\* the loop over the items, keys[k] being getKey of the k-th item's date
RECURSIVE AggregateFrom(_, _, _, _)
AggregateFrom(items, keys, k, map) ==
    IF k > Len(items) THEN map
    ELSE AggregateFrom(items, keys, k + 1,
             IF keys[k] \in DOMAIN map
             THEN [map EXCEPT ![keys[k]] =
                      [totalSpend |-> @.totalSpend + items[k].totalPrice,
                       totalOrders |-> @.totalOrders + 1]]
             ELSE [key \in DOMAIN map \cup {keys[k]} |->
                      IF key \in DOMAIN map THEN map[key]
                      ELSE [totalSpend |-> items[k].totalPrice, totalOrders |-> 1]])

buildAggregateMap(items, getKey) ==
    AggregateFrom(items, [k \in 1..Len(items) |-> ApplyKey(getKey, items[k].date)], 1,
                  [key \in {} |-> [totalSpend |-> 0, totalOrders |-> 0]])

\* faulty variant: the average of a bucket divides by one order too many
avgSpendPerOrderOffByOne(totalSpend, totalOrders) ==
    IF totalOrders > 0 THEN [num |-> totalSpend, den |-> totalOrders + 1]
    ELSE [num |-> 0, den |-> 1]

\* totalOrders > 0 ? totalSpend / totalOrders : 0, the quotient kept exact as
\* a fraction and 0 as 0/1
avgSpendPerOrder(totalSpend, totalOrders) ==
    IF totalOrders > 0 THEN [num |-> totalSpend, den |-> totalOrders]
    ELSE [num |-> 0, den |-> 1]

materializeBuckets(periodStarts, aggregateMap, getKey) ==
    LET Bucket(key, aggregate) ==
            [key |-> key, totalSpend |-> aggregate.totalSpend,
             totalOrders |-> aggregate.totalOrders,
             avgSpendPerOrder |->
                 avgSpendPerOrder(aggregate.totalSpend, aggregate.totalOrders)]
        \* aggregate?.totalSpend ?? 0 and aggregate?.totalOrders ?? 0
        Lookup(key) ==
            Bucket(key, IF key \in DOMAIN aggregateMap THEN aggregateMap[key]
                        ELSE [totalSpend |-> 0, totalOrders |-> 0])
    IN  [k \in 1..Len(periodStarts) |-> Lookup(ApplyKey(getKey, periodStarts[k]))]
RECURSIVE parsedOrderPoints(_)
parsedOrderPoints(records) ==
    IF records = <<>> THEN <<>>
    ELSE LET date == parseOrderedDate(Head(records).orderedAtText)
         IN  (IF date = Null THEN <<>>
              ELSE <<[date |-> date, totalPrice |-> Head(records).totalPrice]>>)
             \o parsedOrderPoints(Tail(records))

\* the reduce of the points to the oldest or to the latest date
RECURSIVE ReduceDates(_, _, _)
ReduceDates(points, kept, keepsLater) ==
    IF points = <<>> THEN kept
    ELSE ReduceDates(Tail(points),
                     IF (keepsLater /\ Head(points).date > kept)
                        \/ (~keepsLater /\ Head(points).date < kept)
                     THEN Head(points).date ELSE kept,
                     keepsLater)

oldestOrderDate(points) ==
    IF Len(points) = 0 THEN Null ELSE ReduceDates(points, points[1].date, FALSE)

latestOrderDate(points) ==
    IF Len(points) = 0 THEN Null ELSE ReduceDates(points, points[1].date, TRUE)

\* faulty variant: the range ends today, a later order is clipped
bucketRangeEndDateToday(points, today) == today

bucketRangeEndDate(points, today) ==
    LET Later(latest) ==
            IF latest = Null THEN today
            ELSE IF latest > today THEN latest ELSE today
    IN  Later(latestOrderDate(points))
monthlyBuckets(records, today) ==
    LET Listed(points, oldest) ==
            IF oldest = Null THEN <<>>
            ELSE materializeBuckets(listMonthStarts(oldest, bucketRangeEndDate(points, today)),
                                    buildAggregateMap(points, "monthKey"), "monthKey")
        Of(points) == Listed(points, oldestOrderDate(points))
    IN  Of(parsedOrderPoints(records))
weeklyBuckets(records, today) ==
    LET Listed(points, oldest) ==
            IF oldest = Null THEN <<>>
            ELSE materializeBuckets(listWeekStarts(oldest, bucketRangeEndDate(points, today)),
                                    buildAggregateMap(points, "weekKey"), "weekKey")
        Of(points) == Listed(points, oldestOrderDate(points))
    IN  Of(parsedOrderPoints(records))
yearlyBuckets(records, today) ==
    LET Listed(points, oldest) ==
            IF oldest = Null THEN <<>>
            ELSE materializeBuckets(listYearStarts(oldest, bucketRangeEndDate(points, today)),
                                    buildAggregateMap(points, "yearKey"), "yearKey")
        Of(points) == Listed(points, oldestOrderDate(points))
    IN  Of(parsedOrderPoints(records))
MaxRecords == 2

\* the record lists and the values of `new Date()` the lists are computed on:
\* prices in hundredths; the clock at 2024-12-29 in the day, at 2025-01-05 at
\* midnight sharp and at 2025-02-10 in the day
WebInputs ==
    LET texts ==
            {
             \* Mon, Dec 30, 2024: 2024-12-30, the Monday of ISO week 2025-W01
             <<"M", "o", "n", ",", " ", "D", "e", "c", " ", "3", "0", ",", " ", "2", "0", "2", "4">>,
             \* Jan 5, 2025, 6:30 PM: 2025-01-05, the Sunday of that week
             <<"J", "a", "n", " ", "5", ",", " ", "2", "0", "2", "5", ",", " ", "6", ":", "3", "0", " ", "P", "M">>,
             \* February 30, 2025: carries over to 2025-03-02
             <<"F", "e", "b", "r", "u", "a", "r", "y", " ", "3", "0", ",", " ", "2", "0", "2", "5">>,
             \* Jan 32, 2025: matches the pattern, is no date
             <<"J", "a", "n", " ", "3", "2", ",", " ", "2", "0", "2", "5">>,
             \* t1: a sample of the extraction, matches no pattern
             <<"t", "1">>,
             \* Dec 31 2024: no comma after the day, matches no pattern
             <<"D", "e", "c", " ", "3", "1", " ", "2", "0", "2", "4">>
            }
        clock == {2 * DaysFromCivil(2024, 12, 29) + 1,
                  2 * DaysFromCivil(2025, 1, 5),
                  2 * DaysFromCivil(2025, 2, 10) + 1}
    IN  [records : SeqsUpTo([orderedAtText : texts, totalPrice : {1250, 725}],
                            MaxRecords),
         today : clock]

WebInit ==
    /\ RunStart(FALSE, "off")
    /\ debugScraper = TRUE
    /\ ApiStart
    /\ ret = <<>>
    /\ \E fn \in {"weeklyBuckets", "monthlyBuckets", "yearlyBuckets"},
          in \in WebInputs :
            call = [fn |-> fn, arg |-> in]

CallWeeklyBuckets ==
    /\ call.fn = "weeklyBuckets"
    /\ ret = <<>>
    /\ ret' = <<weeklyBuckets(call.arg.records, call.arg.today)>>
    /\ UNCHANGED <<call, runVars, apiVars>>

CallMonthlyBuckets ==
    /\ call.fn = "monthlyBuckets"
    /\ ret = <<>>
    /\ ret' = <<monthlyBuckets(call.arg.records, call.arg.today)>>
    /\ UNCHANGED <<call, runVars, apiVars>>

CallYearlyBuckets ==
    /\ call.fn = "yearlyBuckets"
    /\ ret = <<>>
    /\ ret' = <<yearlyBuckets(call.arg.records, call.arg.today)>>
    /\ UNCHANGED <<call, runVars, apiVars>>

WebNext ==
    \/ CallWeeklyBuckets
    \/ CallMonthlyBuckets
    \/ CallYearlyBuckets

SpecWeb == WebInit /\ [][WebNext]_vars

BucketLists == {"weeklyBuckets", "monthlyBuckets", "yearlyBuckets"}

\* the dates of the records of the call whose orderedAtText parses
ParseableDates ==
    {parseOrderedDate(call.arg.records[k].orderedAtText) :
        k \in 1..Len(call.arg.records)} \ {Null}

\* the number of the period of a list that a date falls in: weeks counted
\* from the Monday 1969-12-29, months from January of year 0, years from 0
PeriodOf(fn, date) ==
    LET Numbered(civil) ==
            CASE fn = "weeklyBuckets" -> ((date \div 2) + 3) \div 7
              [] fn = "monthlyBuckets" -> 12 * civil.year + civil.month - 1
              [] fn = "yearlyBuckets" -> civil.year
    IN  Numbered(CivilFromDays(date \div 2))
PeriodKey(fn, period) ==
    LET TwoDigits(n) == <<DigitChar(n \div 10), DigitChar(n % 10)>>
        WeekOf(thursdayYear) ==
            NatText(thursdayYear) \o <<"-", "W">>
            \o TwoDigits(((7 * period - DaysFromCivil(thursdayYear, 1, 1)) \div 7) + 1)
    IN  CASE fn = "weeklyBuckets" -> WeekOf(CivilFromDays(7 * period).year)
          [] fn = "monthlyBuckets" ->
                NatText(period \div 12) \o <<"-">> \o TwoDigits((period % 12) + 1)
          [] fn = "yearlyBuckets" -> NatText(period)
C24_OneBucketPerPeriod ==
    \A fn \in BucketLists :
        Returned(fn) =>
            LET first == CHOOSE d \in ParseableDates :
                            \A e \in ParseableDates : d <= e
                last == CHOOSE d \in ParseableDates \cup {call.arg.today} :
                            \A e \in ParseableDates \cup {call.arg.today} : d >= e
            IN  IF ParseableDates = {} THEN ret[1] = <<>>
                ELSE /\ Len(ret[1]) = PeriodOf(fn, last) - PeriodOf(fn, first) + 1
                     /\ \A k \in 1..Len(ret[1]) :
                           ret[1][k].key = PeriodKey(fn, PeriodOf(fn, first) + k - 1)

\* a weekly list whose range a future-dated record extends past today, with
\* a week without orders in it
C24_Witness ==
    /\ Returned("weeklyBuckets")
    /\ \E d \in ParseableDates : d > call.arg.today
    /\ \E d \in ParseableDates : d < call.arg.today
    /\ Len(ret[1]) >= 3
    /\ \E k \in 1..Len(ret[1]) : ret[1][k].totalOrders = 0

\* C25: a record whose orderedAtText does not parse is counted in no bucket
\* and a record whose text parses in exactly one bucket, that of its period:
\* the order counts of a list sum to the number of parseable records and its
\* spends to their total price
C25_ParseableCountedOnce ==
    \A fn \in BucketLists :
        Returned(fn) =>
            LET records == call.arg.records
                parseable == {k \in 1..Len(records) :
                                 parseOrderedDate(records[k].orderedAtText) # Null}
                InBucket(b) ==
                    {k \in parseable :
                        PeriodKey(fn, PeriodOf(fn, parseOrderedDate(records[k].orderedAtText)))
                            = ret[1][b].key}
                RECURSIVE PriceSum(_)
                PriceSum(ks) ==
                    IF ks = {} THEN 0
                    ELSE LET k == CHOOSE x \in ks : TRUE
                         IN  records[k].totalPrice + PriceSum(ks \ {k})
                RECURSIVE Total(_, _)
                Total(b, spend) ==
                    IF b > Len(ret[1]) THEN 0
                    ELSE (IF spend THEN ret[1][b].totalSpend ELSE ret[1][b].totalOrders)
                         + Total(b + 1, spend)
            IN  /\ \A b \in 1..Len(ret[1]) :
                      /\ ret[1][b].totalOrders = Cardinality(InBucket(b))
                      /\ ret[1][b].totalSpend = PriceSum(InBucket(b))
                /\ \A k \in parseable :
                      Cardinality({b \in 1..Len(ret[1]) : k \in InBucket(b)}) = 1
                /\ Total(1, FALSE) = Cardinality(parseable)
                /\ Total(1, TRUE) = PriceSum(parseable)

\* a weekly list of one record that does not parse and one that does, on the
\* Sunday of a week that belongs to the year after its Monday's
C25_Witness ==
    /\ Returned("weeklyBuckets")
    /\ Len(call.arg.records) = 2
    /\ parseOrderedDate(call.arg.records[1].orderedAtText) = Null
    /\ parseOrderedDate(call.arg.records[2].orderedAtText) = 2 * DaysFromCivil(2025, 1, 5)
    /\ \E b \in 1..Len(ret[1]) : ret[1][b].totalOrders = 1

\* C26: a bucket's avgSpendPerOrder is totalSpend divided by totalOrders when
\* totalOrders is greater than 0 and is 0 when totalOrders is 0, and a bucket
\* without orders has totalSpend 0
C26_AverageIsSpendPerOrder ==
    \A fn \in BucketLists :
        Returned(fn) =>
            \A b \in 1..Len(ret[1]) :
                LET bucket == ret[1][b]
                    avg == bucket.avgSpendPerOrder
                IN  /\ avg.den # 0
                    /\ bucket.totalOrders > 0 =>
                          avg.num * bucket.totalOrders = avg.den * bucket.totalSpend
                    /\ bucket.totalOrders = 0 => avg.num = 0 /\ bucket.totalSpend = 0

\* a list with a bucket of two orders of different prices and a bucket
\* without orders
C26_Witness ==
    /\ \E fn \in BucketLists : Returned(fn)
    /\ \E b \in 1..Len(ret[1]) :
          ret[1][b].totalOrders = 2 /\ ret[1][b].totalSpend = 1975
    /\ \E b \in 1..Len(ret[1]) : ret[1][b].totalOrders = 0

=============================================================================
